---- MODULE Spec2Model ----
(***************************************************************************)
(* Model of gitignore/ignore.py: the fuzzy matcher (fuzzy_search), the     *)
(* interactive selection loop (cli / draw_cli) and the path reducer        *)
(* (find_common_prefix_and_strip_paths).                                   *)
(*                                                                         *)
(* A Python str is a sequence of one-character strings.  A pathlib.Path    *)
(* is a record [root, parts].  A str(Path) is a sequence of tokens: the    *)
(* separator "/", the dot "." of the empty path, and component names.      *)
(***************************************************************************)
EXTENDS Integers, Sequences, FiniteSets, TLC

VARIABLES
    \* draw_cli (lines 42-90)
    items,            \* the candidate list handed to cli()
    query,            \* line 43
    current_index,    \* line 42
    selected_items,   \* line 44
    status,           \* "running" | "cancelled" | "returned" | "error"
    result,           \* the value cli() returns
    terminal,         \* the mode of the terminal: "original" | "curses"
    \* fuzzy_search called on its own (lines 25-33)
    fq, fitems, fpc, fresult,
    \* find_common_prefix_and_strip_paths (lines 95-108)
    paths, common_prefix, pidx, ppc, ret_prefix, ret_paths,
    \* the script body (lines 164-181)
    mpc,              \* "idle" | "reduce" | "copy" | "end" | "crashed"
    selected_item,    \* line 177
    dot_gitignore     \* the files copied over ./.gitignore, in order

loopVars  == <<items, query, current_index, selected_items, status, result, terminal>>
mainVars  == <<mpc, selected_item, dot_gitignore>>
matchVars == <<fq, fitems, fpc, fresult>>
pathVars  == <<paths, common_prefix, pidx, ppc, ret_prefix, ret_paths>>
vars      == <<loopVars, matchVars, pathVars, mainVars>>

----------------------------------------------------------------------------
(* Bounds of the model *)

MaxItems    == 3   \* longest candidate list of the selection loop
MaxQueryLen == 2   \* longest query typed in the selection loop
MaxFItems   == 2   \* longest item list handed to fuzzy_search directly
MaxFQuery   == 3   \* longest query handed to fuzzy_search directly
MaxPaths    == 2   \* longest list handed to the path reducer
MaxDepth    == 2   \* deepest generated path
MaxRows     == 4   \* tallest terminal
MaxFiles    == 2   \* most *.gitignore files found by the script

----------------------------------------------------------------------------
(* Characters *)

RECURSIVE SeqsUpTo(_, _)
\* All sequences over S of length <= n.
SeqsUpTo(S, n) ==
    IF n = 0 THEN {<<>>}
    ELSE LET shorter == SeqsUpTo(S, n - 1)
         IN  shorter \cup {Append(s, c) : s \in {t \in shorter : Len(t) = n - 1}, c \in S}

\* chr(32) .. chr(126); "grave" stands for chr(96), which a string constant
\* cannot hold.
Ascii ==
    <<" ", "!", "\"", "#", "$", "%", "&", "'", "(", ")", "*", "+", ",", "-", ".", "/",
      "0", "1", "2", "3", "4", "5", "6", "7", "8", "9", ":", ";", "<", "=", ">", "?",
      "@", "A", "B", "C", "D", "E", "F", "G", "H", "I", "J", "K", "L", "M", "N", "O",
      "P", "Q", "R", "S", "T", "U", "V", "W", "X", "Y", "Z", "[", "\\", "]", "^", "_",
      "grave", "a", "b", "c", "d", "e", "f", "g", "h", "i", "j", "k", "l", "m", "n", "o",
      "p", "q", "r", "s", "t", "u", "v", "w", "x", "y", "z", "{", "|", "}", "~">>

\* chr(key) for a printable key code
Chr(k) == Ascii[k - 31]

\* ord(c) of a printable character
Ord(c) == CHOOSE k \in 32..126 : Ascii[k - 31] = c

UpperLetters == {Ascii[k - 31] : k \in 65..90}
LowerLetters == {Ascii[k - 31] : k \in 97..122}

ToLower == [c \in UpperLetters |-> Chr(Ord(c) + 32)]
ToUpper == [c \in LowerLetters |-> Chr(Ord(c) - 32)]

\* str.lower() / str.upper() on one character
LowerChar(c) == IF c \in UpperLetters THEN ToLower[c] ELSE c
UpperChar(c) == IF c \in LowerLetters THEN ToUpper[c] ELSE c

Lower(s) == [i \in DOMAIN s |-> LowerChar(s[i])]
Upper(s) == [i \in DOMAIN s |-> UpperChar(s[i])]

\* The characters str.strip() strips and \s matches
Whitespace == {" ", "\t", "\n", "\r", "\f"}

\* The characters re.escape prefixes with a backslash
SpecialChars ==
    {"(", ")", "[", "]", "{", "}", "?", "*", "+", "-", "|", "^", "$", "\\", ".",
     "&", "~", "#", " ", "\t", "\n", "\r", "\f"}

----------------------------------------------------------------------------
(* fuzzy_search, lines 25-33 *)

RECURSIVE LStrip(_)
LStrip(s) == IF s # <<>> /\ Head(s) \in Whitespace THEN LStrip(Tail(s)) ELSE s

RECURSIVE RStrip(_)
RStrip(s) ==
    IF s # <<>> /\ s[Len(s)] \in Whitespace THEN RStrip(SubSeq(s, 1, Len(s) - 1)) ELSE s

\* query.strip()
Strip(s) == RStrip(LStrip(s))

RECURSIVE CollapseSpaces(_)
\* re.sub(r"\s+", " ", s): every maximal run of whitespace becomes one space
CollapseSpaces(s) ==
    IF s = <<>> THEN <<>>
    ELSE IF Head(s) \in Whitespace
         THEN <<" ">> \o CollapseSpaces(LStrip(s))
         ELSE <<Head(s)>> \o CollapseSpaces(Tail(s))

\* Normalize without query.strip()
NormalizeNoStrip(q) == CollapseSpaces(q)

\* line 26
Normalize(q) == CollapseSpaces(Strip(q))

\* re.escape escaping nothing
re_escapeNothing(c) == <<c>>

\* re.escape on one character
re_escape(c) == IF c \in SpecialChars THEN <<"\\", c>> ELSE <<c>>

RECURSIVE JoinDotStar(_)
\* ".*".join(...) over the escaped characters, as the text of the pattern
JoinDotStar(ps) ==
    IF ps = <<>> THEN <<>>
    ELSE IF Len(ps) = 1 THEN ps[1]
    ELSE ps[1] \o <<".", "*">> \o JoinDotStar(Tail(ps))

\* line 30
RegexText(q) == JoinDotStar([i \in DOMAIN q |-> re_escape(q[i])])

Lit(c)      == [c |-> c, any |-> FALSE, star |-> FALSE]
AnyChar     == [c |-> ".", any |-> TRUE, star |-> FALSE]
Starred(a)  == [a EXCEPT !.star = TRUE]

RECURSIVE Compile(_)
\* re.compile on the pattern text: a backslash makes the next character a
\* literal, an unescaped "." is any character, a following "*" repeats.
Compile(r) ==
    IF r = <<>> THEN <<>>
    ELSE LET escaped == Head(r) = "\\" /\ Len(r) >= 2
             atom    == IF escaped THEN Lit(r[2])
                        ELSE IF Head(r) = "." THEN AnyChar ELSE Lit(Head(r))
             used    == IF escaped THEN 2 ELSE 1
             star    == Len(r) > used /\ r[used + 1] = "*"
             next    == IF star THEN used + 2 ELSE used + 1
         IN  <<IF star THEN Starred(atom) ELSE atom>> \o Compile(SubSeq(r, next, Len(r)))

\* One pattern atom against one character, without re.IGNORECASE
AtomMatchesCaseSensitive(a, d) == IF a.any THEN d # "\n" ELSE a.c = d

\* One pattern atom against one character under re.IGNORECASE (line 31);
\* "." matches anything but a newline (re.DOTALL is not set).
AtomMatches(a, d) == IF a.any THEN d # "\n" ELSE LowerChar(a.c) = LowerChar(d)

RECURSIVE Closure(_, _)
\* Pattern positions reachable by skipping starred atoms.
Closure(T, S) ==
    LET more == S \cup {k + 1 : k \in {j \in S : j < Len(T) /\ T[j + 1].star}}
    IN  IF more = S THEN S ELSE Closure(T, more)

\* Pattern positions after reading character d.
StepSet(T, S, d) ==
    {k + 1 : k \in {j \in S : j < Len(T) /\ ~T[j + 1].star /\ AtomMatches(T[j + 1], d)}}
    \cup {j \in S : j < Len(T) /\ T[j + 1].star /\ AtomMatches(T[j + 1], d)}

RECURSIVE RunFrom(_, _, _, _)
RunFrom(T, S, s, j) ==
    IF Len(T) \in S THEN TRUE
    ELSE IF j > Len(s) THEN FALSE
    ELSE RunFrom(T, Closure(T, StepSet(T, S, s[j]) \cup {0}), s, j + 1)

RECURSIVE RunWhole(_, _, _, _)
RunWhole(T, S, s, j) ==
    IF j > Len(s) THEN Len(T) \in S
    ELSE RunWhole(T, Closure(T, StepSet(T, S, s[j])), s, j + 1)

\* pattern.fullmatch(item) in place of pattern.search(item)
SearchFullMatch(T, s) == RunWhole(T, Closure(T, {0}), s, 1)

\* pattern.search(item), line 33: a match may start anywhere in the item
Search(T, s) == RunFrom(T, Closure(T, {0}), s, 1)

\* fuzzy_search whose comprehension leaves out the last item (items[:-1])
fuzzy_searchSkipsLast(q, its) ==
    LET nq == Normalize(q)
    IN  IF nq = <<>> THEN its
        ELSE LET pattern == Compile(RegexText(nq))
             IN  SelectSeq(SubSeq(its, 1, Len(its) - 1), LAMBDA item : Search(pattern, item))

\* fuzzy_search(query, items), lines 25-33
fuzzy_search(q, its) ==
    LET nq == Normalize(q)
    IN  IF nq = <<>> THEN its
        ELSE LET pattern == Compile(RegexText(nq))
             IN  SelectSeq(its, LAMBDA item : Search(pattern, item))

----------------------------------------------------------------------------
(* Candidate strings *)

Node_gitignore   == <<"N", "o", "d", "e", ".", "g", "i", "t", "i", "g", "n", "o", "r", "e">>
Python_gitignore == <<"P", "y", "t", "h", "o", "n", ".", "g", "i", "t", "i", "g", "n", "o", "r", "e">>
Go_gitignore     == <<"G", "o", ".", "g", "i", "t", "i", "g", "n", "o", "r", "e">>
D_gitignore      == <<"D", ".", "g", "i", "t", "i", "g", "n", "o", "r", "e">>

\* line 87
NoMatchesFound ==
    <<"N", "o", " ", "m", "a", "t", "c", "h", "e", "s", " ", "f", "o", "u", "n", "d">>

IsInjective(s) == \A i, j \in DOMAIN s : s[i] = s[j] => i = j

----------------------------------------------------------------------------
(* cli / draw_cli, lines 36-92 *)

\* Key codes read by stdscr.getch()
KEY_ESC       == 27
KEY_ENTER     == 10
KEY_DOWN      == 258
KEY_UP        == 259
KEY_BACKSPACE == 263

\* The keys the model presses: the five special keys, the printable
\* characters " ", "d", "p", "y", "z", and the unbound keys 9 (tab), 31, 127
\* and 410 (KEY_RESIZE).
PrintableKeys == {32, 100, 112, 121, 122}
UnboundKeys   == {9, 31, 127, 410}
Keys == {KEY_ESC, KEY_ENTER, KEY_DOWN, KEY_UP, KEY_BACKSPACE}
            \cup PrintableKeys \cup UnboundKeys

\* The candidate lists the loop is started on: the stripped paths of
\* distinct files, possibly none.
LoopPool  == {Node_gitignore, Python_gitignore, Go_gitignore, D_gitignore}
LoopItems == {s \in SeqsUpTo(LoopPool, MaxItems) : IsInjective(s)}

None    == [some |-> FALSE, val |-> <<>>]
Some(v) == [some |-> TRUE, val |-> v]

Min(a, b) == IF a <= b THEN a ELSE b

\* Branch with a backspace on an empty query leaving the loop
BranchBackspaceQuits(k) ==
    IF k = KEY_ESC \/ (k = KEY_BACKSPACE /\ query = <<>>) THEN "escape"
    ELSE IF k = KEY_UP /\ current_index > 0 THEN "up"
    ELSE IF k = KEY_DOWN /\ current_index < Len(selected_items) - 1 THEN "down"
    ELSE IF k = KEY_ENTER THEN "enter"
    ELSE IF k = KEY_BACKSPACE THEN "backspace"
    ELSE "else"

\* The branch of the if/elif chain of lines 65-80 that key k takes.
Branch(k) ==
    IF k = KEY_ESC THEN "escape"
    ELSE IF k = KEY_UP /\ current_index > 0 THEN "up"
    ELSE IF k = KEY_DOWN /\ current_index < Len(selected_items) - 1 THEN "down"
    ELSE IF k = KEY_ENTER THEN "enter"
    ELSE IF k = KEY_BACKSPACE THEN "backspace"
    ELSE "else"

\* query[:-1], line 78
DropLast(q) == IF q = <<>> THEN <<>> ELSE SubSeq(q, 1, Len(q) - 1)

\* TypedText with the lower end of the range off by one (key > 32)
TypedTextNoSpace(k) == IF k > 32 /\ k <= 126 THEN <<Chr(k)>> ELSE <<>>

\* chr(key) if key >= 32 and key <= 126 else "", line 80
TypedText(k) == IF k >= 32 /\ k <= 126 THEN <<Chr(k)>> ELSE <<>>

\* lines 86-87
OrPlaceholder(found) == IF found = <<>> THEN <<NoMatchesFound>> ELSE found

\* Clamp with the bound of line 90 left out
ClampNone(ci, shown) == ci

\* line 90
Clamp(ci, shown) == Min(ci, Len(shown) - 1)

\* Recompute with line 83 left out: the view is not refreshed
RecomputeStale(q, ci) ==
    /\ UNCHANGED <<items, status, result, terminal>>
    /\ query' = q
    /\ selected_items' = selected_items
    /\ current_index' = Clamp(ci, selected_items)

\* Lines 83-90, run after every branch that does not leave the loop.
Recompute(q, ci) ==
    LET shown == OrPlaceholder(fuzzy_search(q, items))
    IN  /\ UNCHANGED <<items, status, result, terminal>>
        /\ query' = q
        /\ selected_items' = shown
        /\ current_index' = Clamp(ci, shown)

Max(a, b) == IF a >= b THEN a ELSE b

\* s[:n], the slice of line 54; a negative n counts from the end
SliceTo(s, n) ==
    IF n >= 0 THEN SubSeq(s, 1, Min(n, Len(s)))
    ELSE SubSeq(s, 1, Max(Len(s) + n, 0))

\* Lines 54-58 on a terminal of h rows: the entries drawn below the prompt,
\* entry i on screen row i, the one at current_index in reverse video.
Rendered(h) ==
    LET shown == SliceTo(selected_items, h - 2)
    IN  [i \in DOMAIN shown |->
            [row |-> i, text |-> shown[i], reverse |-> (i - 1 = current_index)]]

\* Terminal heights with room for the prompt, one entry and the last row
Heights == 3..MaxRows

\* curses.wrapper without its finally clause: an exception skips endwin()
wrapper_exitNoFinally(how) == IF how = "raise" THEN "curses" ELSE "original"

\* curses.wrapper(draw_cli), line 92: the mode of the terminal once draw_cli
\* has left by "return" or by "raise".  The wrapper ends curses mode in a
\* finally clause, whichever way the function leaves.
wrapper_exit(how) == "original"

\* lines 65-66 and the fall through to the end of draw_cli
Escape(k) ==
    /\ status = "running"
    /\ Branch(k) = "escape"
    /\ status' = "cancelled"
    /\ result' = None
    /\ terminal' = wrapper_exit("return")
    /\ UNCHANGED <<items, query, current_index, selected_items>>
    /\ UNCHANGED <<matchVars, pathVars, mainVars>>

\* lines 67-68
MoveUp(k) ==
    /\ status = "running"
    /\ Branch(k) = "up"
    /\ Recompute(query, current_index - 1)
    /\ UNCHANGED <<matchVars, pathVars, mainVars>>

\* lines 69-70
MoveDown(k) ==
    /\ status = "running"
    /\ Branch(k) = "down"
    /\ Recompute(query, current_index + 1)
    /\ UNCHANGED <<matchVars, pathVars, mainVars>>

\* lines 71-73 when selected_items[current_index] exists
Enter(k) ==
    /\ status = "running"
    /\ Branch(k) = "enter"
    /\ current_index + 1 \in DOMAIN selected_items
    /\ status' = "returned"
    /\ result' = Some(selected_items[current_index + 1])
    /\ terminal' = wrapper_exit("return")
    /\ UNCHANGED <<items, query, current_index, selected_items>>
    /\ UNCHANGED <<matchVars, pathVars, mainVars>>

\* line 72 when the index is out of range: IndexError leaves draw_cli
EnterIndexError(k) ==
    /\ status = "running"
    /\ Branch(k) = "enter"
    /\ current_index + 1 \notin DOMAIN selected_items
    /\ status' = "error"
    /\ terminal' = wrapper_exit("raise")
    /\ UNCHANGED <<items, query, current_index, selected_items, result>>
    /\ UNCHANGED <<matchVars, pathVars, mainVars>>

\* lines 77-78
Backspace(k) ==
    /\ status = "running"
    /\ Branch(k) = "backspace"
    /\ Recompute(DropLast(query), current_index)
    /\ UNCHANGED <<matchVars, pathVars, mainVars>>

\* lines 79-80: a printable key, an unbound key, or an arrow key whose
\* guard at line 67 or 69 failed
ElseKey(k) ==
    /\ status = "running"
    /\ Branch(k) = "else"
    /\ Len(query \o TypedText(k)) <= MaxQueryLen
    /\ Recompute(query \o TypedText(k), current_index)
    /\ UNCHANGED <<matchVars, pathVars, mainVars>>

\* One turn of the loop of line 46 on key k = stdscr.getch()
KeyPress(k) ==
    \/ Escape(k)
    \/ MoveUp(k)
    \/ MoveDown(k)
    \/ Enter(k)
    \/ EnterIndexError(k)
    \/ Backspace(k)
    \/ ElseKey(k)

MatchIdle == fq = <<>> /\ fitems = <<>> /\ fpc = "idle" /\ fresult = <<>>
PathIdle ==
    /\ paths = <<>> /\ common_prefix = [root |-> FALSE, parts |-> <<>>] /\ pidx = 0
    /\ ppc = "idle" /\ ret_prefix = <<>> /\ ret_paths = <<>>
LoopIdle ==
    /\ items = <<>> /\ query = <<>> /\ current_index = 0
    /\ selected_items = <<>> /\ status = "idle" /\ result = None
    /\ terminal = "original"
MainIdle == mpc = "idle" /\ selected_item = None /\ dot_gitignore = <<>>

\* lines 42-44
Init ==
    /\ items \in LoopItems
    /\ current_index = 0
    /\ query = <<>>
    /\ selected_items = items
    /\ status = "running"
    /\ result = None
    /\ terminal = "curses"
    /\ MatchIdle
    /\ PathIdle
    /\ MainIdle

Next == \E k \in Keys : KeyPress(k)

Spec == Init /\ [][Next]_vars

----------------------------------------------------------------------------
(* fuzzy_search called on its own *)

\* Characters of the queries: two letters, a character that is special in
\* a pattern, and whitespace; every query is also tried in upper case.
FQueryChars  == {"n", "g", ".", " "}
FQueriesBase == SeqsUpTo(FQueryChars, MaxFQuery)
FQueries     == FQueriesBase \cup {Upper(q) : q \in FQueriesBase}

\* Items: two template names, and short strings that hold the query's
\* letters in the other order, around a space and around a newline.
FPool ==
    {Node_gitignore, Python_gitignore, <<"g", "n">>, <<"n", " ", "g">>, <<"N", "\n", "g">>}
FItemLists == SeqsUpTo(FPool, MaxFItems)

InitMatch ==
    /\ fq \in FQueries
    /\ fitems \in FItemLists
    /\ fpc = "call"
    /\ fresult = <<>>
    /\ LoopIdle
    /\ PathIdle
    /\ MainIdle

\* One call of fuzzy_search(fq, fitems)
FuzzySearchCall ==
    /\ fpc = "call"
    /\ fresult' = fuzzy_search(fq, fitems)
    /\ fpc' = "done"
    /\ UNCHANGED <<fq, fitems, loopVars, pathVars, mainVars>>

NextMatch == FuzzySearchCall

SpecMatch == InitMatch /\ [][NextMatch]_vars

----------------------------------------------------------------------------
(* find_common_prefix_and_strip_paths, lines 95-108 *)

MkPath(root, parts) == [root |-> root, parts |-> parts]

\* Path.parent: the parent of "/" is "/", the parent of "." is "."
parent(p) ==
    IF p.parts = <<>> THEN p
    ELSE MkPath(p.root, SubSeq(p.parts, 1, Len(p.parts) - 1))

IsPrefix(s, t) == Len(s) <= Len(t) /\ SubSeq(t, 1, Len(s)) = s

\* Path.is_relative_to(other): purely lexical, same anchor and a prefix of
\* the components
is_relative_to(p, other) == p.root = other.root /\ IsPrefix(other.parts, p.parts)

\* relative_to keeping the last component of other
relative_toKeepsLast(p, other) ==
    MkPath(FALSE, SubSeq(p.parts, Len(other.parts), Len(p.parts)))

\* Path.relative_to(other), for p.is_relative_to(other)
relative_to(p, other) ==
    MkPath(FALSE, SubSeq(p.parts, Len(other.parts) + 1, Len(p.parts)))

RECURSIVE JoinSlash(_)
JoinSlash(parts) ==
    IF parts = <<>> THEN <<>>
    ELSE IF Len(parts) = 1 THEN parts
    ELSE <<parts[1], "/">> \o JoinSlash(Tail(parts))

\* str(Path): "/" for the root, "." for the empty relative path
PathStr(p) ==
    IF p.root THEN <<"/">> \o JoinSlash(p.parts)
    ELSE IF p.parts = <<>> THEN <<".">>
    ELSE JoinSlash(p.parts)

\* Path(str): separators and "." components are dropped; "" is Path(".")
PathOfStr(s) ==
    MkPath(s # <<>> /\ Head(s) = "/", SelectSeq(s, LAMBDA t : t \notin {"/", "."}))

\* a / b, as line 178 joins the prefix and the selection
JoinPath(a, b) == IF b.root THEN b ELSE MkPath(a.root, a.parts \o b.parts)

PathNames == {"a", "b"}

\* The paths of the examples
P_a_b_x   == MkPath(TRUE, <<"a", "b", "x.gitignore">>)
P_a_b_c_y == MkPath(TRUE, <<"a", "b", "c", "y.gitignore">>)
P_a_x     == MkPath(TRUE, <<"a", "x.gitignore">>)
P_b_y     == MkPath(TRUE, <<"b", "y.gitignore">>)

\* Absolute and relative paths of one component or more
PathPool ==
    {MkPath(r, ps) : r \in BOOLEAN, ps \in SeqsUpTo(PathNames, MaxDepth) \ {<<>>}}
        \cup {P_a_b_x, P_a_b_c_y, P_a_x, P_b_y}
PathLists == SeqsUpTo(PathPool, MaxPaths)

NoPath == MkPath(FALSE, <<>>)

InitPath ==
    /\ paths \in PathLists
    /\ common_prefix = NoPath
    /\ pidx = 0
    /\ ppc = "entry"
    /\ ret_prefix = <<>>
    /\ ret_paths = <<>>
    /\ LoopIdle
    /\ MatchIdle
    /\ MainIdle

\* lines 96-97
ReturnEmpty ==
    /\ ppc = "entry"
    /\ paths = <<>>
    /\ ret_prefix' = <<>>
    /\ ret_paths' = paths
    /\ ppc' = "done"
    /\ UNCHANGED <<paths, common_prefix, pidx, loopVars, matchVars, mainVars>>

\* line 99
TakeFirst ==
    /\ ppc = "entry"
    /\ paths # <<>>
    /\ common_prefix' = paths[1]
    /\ pidx' = 2
    /\ ppc' = "for"
    /\ UNCHANGED <<paths, ret_prefix, ret_paths, loopVars, matchVars, mainVars>>

\* line 101 when the path is under the prefix: on to the next path
NextPathOfFor ==
    /\ ppc = "for"
    /\ pidx <= Len(paths)
    /\ is_relative_to(paths[pidx], common_prefix)
    /\ pidx' = pidx + 1
    /\ UNCHANGED <<paths, common_prefix, ppc, ret_prefix, ret_paths, loopVars, matchVars, mainVars>>

\* lines 101-104: one turn of the while loop
WalkUp ==
    /\ ppc = "for"
    /\ pidx <= Len(paths)
    /\ ~is_relative_to(paths[pidx], common_prefix)
    /\ common_prefix' = parent(common_prefix)
    /\ IF PathStr(common_prefix') = <<>>
       THEN /\ ret_prefix' = <<>>
            /\ ret_paths' = paths
            /\ ppc' = "done"
       ELSE UNCHANGED <<ret_prefix, ret_paths, ppc>>
    /\ UNCHANGED <<paths, pidx, loopVars, matchVars, mainVars>>

\* lines 106-108
StripPaths ==
    /\ ppc = "for"
    /\ pidx > Len(paths)
    /\ ret_prefix' = PathStr(common_prefix)
    /\ ret_paths' = [i \in DOMAIN paths |-> relative_to(paths[i], common_prefix)]
    /\ ppc' = "done"
    /\ UNCHANGED <<paths, common_prefix, pidx, loopVars, matchVars, mainVars>>

NextPath ==
    \/ ReturnEmpty
    \/ TakeFirst
    \/ NextPathOfFor
    \/ WalkUp
    \/ StripPaths

SpecPath == InitPath /\ [][NextPath]_vars

----------------------------------------------------------------------------
(* Properties of the selection loop, checked under Spec *)

Range(s) == {s[i] : i \in DOMAIN s}

\* The candidates the current query matches
Matching == fuzzy_search(query, items)

\* C1: after any sequence of key events from the initial state, whenever
\* the view is non-empty, 0 <= cursor < len(view).
C1_CursorInView ==
    selected_items # <<>> =>
        0 <= current_index /\ current_index < Len(selected_items)

\* C1 witness: the loop is running on a view that typing has narrowed to
\* fewer candidates than the list holds.
C1_Witness ==
    /\ status = "running"
    /\ query # <<>>
    /\ selected_items # <<NoMatchesFound>>
    /\ Len(selected_items) < Len(items)
    /\ current_index = Len(selected_items) - 1

\* C2: Enter pressed while no candidate matches the query does not return
\* the placeholder text as the selection (it returns none or the loop stays
\* active).
C2_PlaceholderNotReturned ==
    (status = "returned" /\ Matching = <<>>) => result # Some(NoMatchesFound)

\* C3: when at least one candidate matches the query, Enter ends the loop
\* and returns view[cursor], an element of items that matches the query;
\* with exactly one match it returns that match wherever the cursor was
\* moved.
C3_EnterReturnsMatch ==
    /\ (status = "running" /\ Matching # <<>>) => ENABLED Enter(KEY_ENTER)
    /\ (status = "returned" /\ Matching # <<>>) =>
            /\ result.some
            /\ result.val = selected_items[current_index + 1]
            /\ result.val \in Range(items)
            /\ result.val \in Range(Matching)
            /\ Len(Matching) = 1 => result.val = Matching[1]

\* C3 witness: Enter returned the one candidate, out of several, that a
\* typed query matches.
C3_Witness ==
    /\ status = "returned"
    /\ query # <<>>
    /\ Len(items) >= 2
    /\ Len(Matching) = 1
    /\ result = Some(Matching[1])

\* C4: in every state of the running loop the escape key ends the loop and
\* returns none, and no key other than escape and enter ends the loop.
C4_OnlyEscapeAndEnterEnd ==
    /\ [](status = "running" => ENABLED KeyPress(KEY_ESC))
    /\ [][/\ KeyPress(KEY_ESC) => (status' = "cancelled" /\ result' = None)
          /\ status' # "running" =>
                ~ \E k \in Keys \ {KEY_ESC, KEY_ENTER} : KeyPress(k)]_vars

\* C4 witness: escape ended the loop after the query and the cursor had
\* been changed.
C4_Witness ==
    /\ status = "cancelled"
    /\ result = None
    /\ query # <<>>
    /\ current_index > 0

IsBlank(q) == \A i \in DOMAIN q : q[i] \in {" ", "\t", "\n", "\r", "\f"}

\* C6: a query that is empty or whitespace-only matches every item in the
\* original order, and the running loop then shows the full candidate list
\* when that list is non-empty.
C6_BlankQueryShowsAll ==
    (status = "running" /\ IsBlank(query)) =>
        /\ fuzzy_search(query, items) = items
        /\ items # <<>> => selected_items = items

\* C6 witness: the loop shows the full list under a whitespace-only query.
C6_Witness ==
    /\ status = "running"
    /\ query # <<>>
    /\ IsBlank(query)
    /\ Len(items) >= 2
    /\ selected_items = items

\* C10: on an empty candidate list the loop shows exactly the placeholder
\* row from its first render on and no key makes it fail with an error.
C10_EmptyListHandled ==
    items = <<>> =>
        /\ status # "error"
        /\ status = "running" => selected_items = <<NoMatchesFound>>

----------------------------------------------------------------------------
(* Properties of fuzzy_search, checked under SpecMatch *)

RECURSIVE IsSubsequenceFrom(_, _, _, _)
\* q[i..] occurs in s[j..] as a subsequence, letter case ignored
IsSubsequenceFrom(q, i, s, j) ==
    IF i > Len(q) THEN TRUE
    ELSE IF j > Len(s) THEN FALSE
    ELSE IF LowerChar(q[i]) = LowerChar(s[j])
         THEN IsSubsequenceFrom(q, i + 1, s, j + 1)
         ELSE IsSubsequenceFrom(q, i, s, j + 1)

IsSubsequence(q, s) == IsSubsequenceFrom(q, 1, s, 1)

\* C5: fuzzy_search(q, items) is exactly the sub-list of items, in the
\* original order, in which the characters of the whitespace-normalized q
\* occur in order as a case-insensitive subsequence; so q in upper case and
\* q in lower case give the same result.
C5_ExactlyTheSubsequenceMatches ==
    fpc = "done" =>
        /\ fresult = SelectSeq(fitems, LAMBDA item : IsSubsequence(Normalize(fq), item))
        /\ fuzzy_search(Upper(fq), fitems) = fuzzy_search(Lower(fq), fitems)

Query_n_dot_g == <<"n", ".", "g">>

\* C7 as stated: for items = ["Node.gitignore", "Python.gitignore"] and
\* query "n.g" the matcher returns "Node.gitignore" only.
C7_OnlyNode ==
    (fpc = "done" /\ fq = Query_n_dot_g /\ fitems = <<Node_gitignore, Python_gitignore>>)
        => fresult = <<Node_gitignore>>

\* C7 as amended: for items = ["Node.gitignore", "Python.gitignore"] and
\* query "n.g" the matcher returns both items in order, and the "." of the
\* query is literal: every item returned for "n.g" holds a ".".
C7_BothNodeAndPython ==
    (fpc = "done" /\ fq = Query_n_dot_g) =>
        /\ fitems = <<Node_gitignore, Python_gitignore>> => fresult = fitems
        /\ \A i \in DOMAIN fresult : "." \in Range(fresult[i])

\* C7 witness: the call of the example has returned.
C7_Witness ==
    /\ fpc = "done"
    /\ fq = Query_n_dot_g
    /\ fitems = <<Node_gitignore, Python_gitignore>>
    /\ fresult = <<Node_gitignore, Python_gitignore>>

----------------------------------------------------------------------------
(* Properties of find_common_prefix_and_strip_paths, checked under SpecPath *)

\* a is p or an ancestor directory of p
IsAncestorOrSelf(a, p) == a.root = p.root /\ IsPrefix(a.parts, p.parts)

IsCommonAncestor(a, ps) == \A i \in DOMAIN ps : IsAncestorOrSelf(a, ps[i])

\* Some path is an ancestor of every input path
ShareAnAncestor(ps) == \A i, j \in DOMAIN ps : ps[i].root = ps[j].root

\* Absolute paths that share no ancestor but the root
OnlyRootInCommon(ps) ==
    /\ ps # <<>>
    /\ \A i \in DOMAIN ps : ps[i].root
    /\ \E i, j \in DOMAIN ps : ps[i].parts[1] # ps[j].parts[1]

\* The ancestors of p, p included
AncestorsOrSelf(p) == {MkPath(p.root, SubSeq(p.parts, 1, n)) : n \in 0..Len(p.parts)}

\* C8: when the input paths have no common ancestor other than the
\* filesystem root, the function returns an empty prefix and the original
\* paths unchanged.
C8_RootOnlyGivesEmptyPrefix ==
    (ppc = "done" /\ OnlyRootInCommon(paths)) =>
        (ret_prefix = <<>> /\ ret_paths = paths)

\* C9: for a non-empty list of paths that share an ancestor, the prefix
\* returned is the longest path that is an ancestor of (or equal to) every
\* input path, the list returned has the same length, and relative[i]
\* joined onto the prefix is paths[i]; the two-path example gives /a/b and
\* [x.gitignore, c/y.gitignore]; empty input gives an empty prefix and the
\* empty sequence.
C9_LongestCommonAncestorRoundTrip ==
    ppc = "done" =>
        /\ (paths # <<>> /\ ShareAnAncestor(paths)) =>
              LET prefix == PathOfStr(ret_prefix)
              IN  /\ IsCommonAncestor(prefix, paths)
                  /\ \A a \in AncestorsOrSelf(paths[1]) :
                        IsCommonAncestor(a, paths) => Len(a.parts) <= Len(prefix.parts)
                  /\ Len(ret_paths) = Len(paths)
                  /\ \A i \in DOMAIN paths : JoinPath(prefix, ret_paths[i]) = paths[i]
        /\ paths = <<P_a_b_x, P_a_b_c_y>> =>
              /\ ret_prefix = <<"/", "a", "/", "b">>
              /\ ret_paths = <<MkPath(FALSE, <<"x.gitignore">>),
                               MkPath(FALSE, <<"c", "y.gitignore">>)>>
        /\ paths = <<>> => (ret_prefix = <<>> /\ ret_paths = <<>>)

\* C9 witness: the call of the example has returned /a/b.
C9_Witness ==
    /\ ppc = "done"
    /\ paths = <<P_a_b_x, P_a_b_c_y>>
    /\ ret_prefix = <<"/", "a", "/", "b">>
    /\ Len(ret_paths) = 2

----------------------------------------------------------------------------
(* Further properties of the selection loop, checked under Spec *)

\* C11: the terminal is in curses mode while the loop runs and is back in
\* its original mode on every exit of cli: after Cancel, after Confirm and
\* after an error raised inside the loop.
C11_TerminalRestoredOnEveryExit ==
    /\ status = "running" => terminal = "curses"
    /\ status \in {"cancelled", "returned", "error"} => terminal = "original"

\* C11 witness: the loop was left by an exception and the terminal is
\* restored.
C11_Witness == status = "error" /\ terminal = "original"

----------------------------------------------------------------------------
(* Further properties of fuzzy_search, checked under SpecMatch *)

\* C12: filtering is idempotent: fuzzy_search(q, fuzzy_search(q, items)) is
\* fuzzy_search(q, items).
C12_FilterIdempotent ==
    fpc = "done" => fuzzy_search(fq, fresult) = fresult

\* C12 witness: a call that kept some items and dropped others.
C12_Witness ==
    /\ fpc = "done"
    /\ fresult # <<>>
    /\ Len(fresult) < Len(fitems)

\* C20: typing narrows: every candidate of fuzzy_search(q + c, items) is a
\* candidate of fuzzy_search(q, items), also when c or the end of q is
\* whitespace; so appending a character adds no candidate and removing
\* the last character removes none.  Every non-empty query of the calls is
\* some q + c, and q is that query without its last character.
C20_TypingNarrows ==
    (fpc = "done" /\ fq # <<>>) =>
        Range(fresult) \subseteq Range(fuzzy_search(DropLast(fq), fitems))

\* C20 witness: a query ending in whitespace under which some item is kept
\* and some item is dropped.
C20_Witness ==
    /\ fpc = "done"
    /\ Len(fq) >= 2
    /\ fq[Len(fq)] = " "
    /\ fresult # <<>>
    /\ Len(fresult) < Len(fitems)

----------------------------------------------------------------------------
(* Properties of the loop's transitions and of its rendering, under Spec *)

\* The view the current query calls for
ViewOf(q, its) ==
    IF fuzzy_search(q, its) # <<>> THEN fuzzy_search(q, its) ELSE <<NoMatchesFound>>

\* C13: after every transition that stays in the loop, the view is
\* fuzzy_search(query, items) when that is non-empty and the single
\* placeholder row otherwise, so it is never stale when the next key is read.
C13_ViewFollowsQuery ==
    [][status' = "running" => selected_items' = ViewOf(query', items')]_vars

\* C13 witness: typing has left only the placeholder row of a non-empty list.
C13_Witness ==
    /\ status = "running"
    /\ items # <<>>
    /\ query # <<>>
    /\ selected_items = <<NoMatchesFound>>

\* C14: move-up takes exactly 1 from the cursor when cursor > 0 and is a
\* no-op at 0; move-down adds exactly 1 when cursor < len(view) - 1 and is
\* a no-op otherwise; both leave the query and the view unchanged.
C14_ArrowsMoveOnlyTheCursor ==
    [][/\ KeyPress(KEY_UP) =>
            /\ current_index' =
                  IF current_index > 0 THEN current_index - 1 ELSE current_index
            /\ query' = query /\ selected_items' = selected_items
       /\ KeyPress(KEY_DOWN) =>
            /\ current_index' =
                  IF current_index < Len(selected_items) - 1
                  THEN current_index + 1 ELSE current_index
            /\ query' = query /\ selected_items' = selected_items]_vars

\* C15: backspace removes exactly the last character of the query and is a
\* no-op on an empty query; a printable key (32 to 126) appends exactly its
\* character; no key changes the query in any other way.
C15_QueryEdits ==
    [][\A k \in Keys :
          \/ query' = IF k = KEY_BACKSPACE
                      THEN SubSeq(query, 1, Len(query) - 1)
                      ELSE IF k \in 32..126 THEN Append(query, Ascii[k - 31])
                      ELSE query
          \/ ~KeyPress(k)]_vars

\* C15 witness: a typed space is the last character of the query.
C15_Witness ==
    /\ status = "running"
    /\ Len(query) >= 2
    /\ query[Len(query)] = " "

\* C16: a key that is not escape, enter, move-up, move-down, backspace or
\* printable is a no-op in every state, the initial one included: query,
\* cursor and view are unchanged and the loop goes on.
C16_UnboundKeysDoNothing ==
    [][\A k \in UnboundKeys :
          KeyPress(k) =>
              /\ query' = query
              /\ current_index' = current_index
              /\ selected_items' = selected_items
              /\ status' = "running"]_vars

\* C17: in every render, for every terminal height and every non-empty
\* view, at most rows - 2 entries are drawn and the entry at the cursor is
\* among them and is the one in reverse video.
C17_SelectionOnScreen ==
    \A h \in Heights :
        (status = "running" /\ selected_items # <<>>) =>
            /\ Len(Rendered(h)) <= h - 2
            /\ \E i \in DOMAIN Rendered(h) :
                  /\ i = current_index + 1
                  /\ Rendered(h)[i].reverse
                  /\ Rendered(h)[i].text = selected_items[current_index + 1]
            /\ \A i \in DOMAIN Rendered(h) :
                  Rendered(h)[i].reverse => i = current_index + 1

----------------------------------------------------------------------------
(* Termination of the path reducer, under SpecPath *)

\* C18: find_common_prefix_and_strip_paths terminates for every finite list
\* of paths, lists mixing absolute and relative paths included: the walk up
\* the parents always stops.  The function is deterministic, so it
\* terminates only if every state short of the return has a step that
\* changes the state.
C18_WalkUpAlwaysStops == ppc = "done" \/ ENABLED <<NextPath>>_vars

----------------------------------------------------------------------------
(* The script body, lines 164-181: reduce the files found, select, copy *)

\* What parse_dir returns (lines 111-123): distinct absolute paths of
\* regular files, or [] when the directory is missing
FilePool == {P_a_b_x, P_a_b_c_y, P_a_x, P_b_y}
FileLists == {fs \in SeqsUpTo(FilePool, MaxFiles) : IsInjective(fs)}

\* [str(path) for path in stripped_paths], line 177
cli_items == [i \in DOMAIN ret_paths |-> PathStr(ret_paths[i])]

\* The placeholder row (line 87) as the text of a path of one component
PlaceholderName == <<"No matches found">>

\* The rows Enter can return (lines 72-73): a candidate, or the placeholder
\* once a key has been pressed and nothing matches
EnterRows == {cli_items[i] : i \in DOMAIN cli_items} \cup {PlaceholderName}

\* common_prefix / Path(selected_item or ""), line 178
selected_item_path ==
    JoinPath(PathOfStr(ret_prefix),
             PathOfStr(IF selected_item.some THEN selected_item.val ELSE <<>>))

\* shutil.copy(source_path, destination_path), lines 153-161: it writes
\* ./.gitignore when the source is a regular file; a directory or a missing
\* file raises, and every exception is caught and logged
copy_file_to_current_directory(source_path) ==
    IF \E i \in DOMAIN paths : paths[i] = source_path
    THEN Append(dot_gitignore, source_path)
    ELSE dot_gitignore

\* State after line 167; dot_gitignore lists the files written over the
\* ./.gitignore of the working directory, none yet
InitMain ==
    /\ paths \in FileLists
    /\ common_prefix = NoPath
    /\ pidx = 0
    /\ ppc = "entry"
    /\ ret_prefix = <<>>
    /\ ret_paths = <<>>
    /\ mpc = "reduce"
    /\ selected_item = None
    /\ dot_gitignore = <<>>
    /\ LoopIdle
    /\ MatchIdle

\* line 177, the loop ended by escape (lines 65-66): cli returns None
CliEscape ==
    /\ mpc = "reduce" /\ ppc = "done"
    /\ selected_item' = None
    /\ mpc' = "copy"
    /\ UNCHANGED <<dot_gitignore, loopVars, matchVars, pathVars>>

\* line 177, the loop ended by Enter (lines 71-73): cli returns a row
CliEnter ==
    /\ mpc = "reduce" /\ ppc = "done"
    /\ \E row \in EnterRows : selected_item' = Some(row)
    /\ mpc' = "copy"
    /\ UNCHANGED <<dot_gitignore, loopVars, matchVars, pathVars>>

\* line 177, Enter as the first key on an empty list: IndexError at line 72
\* leaves the script
CliEnterIndexError ==
    /\ mpc = "reduce" /\ ppc = "done"
    /\ cli_items = <<>>
    /\ mpc' = "crashed"
    /\ UNCHANGED <<selected_item, dot_gitignore, loopVars, matchVars, pathVars>>

\* lines 178-181
MainCopy ==
    /\ mpc = "copy"
    /\ dot_gitignore' = copy_file_to_current_directory(selected_item_path)
    /\ mpc' = "end"
    /\ UNCHANGED <<selected_item, loopVars, matchVars, pathVars>>

NextMain ==
    \/ ReturnEmpty
    \/ TakeFirst
    \/ NextPathOfFor
    \/ WalkUp
    \/ StripPaths
    \/ CliEscape
    \/ CliEnter
    \/ CliEnterIndexError
    \/ MainCopy

SpecMain == InitMain /\ [][NextMain]_vars

\* C19: when the user cancels the selection the script copies nothing: the
\* ./.gitignore of the working directory is left unchanged, for every set
\* of candidate files, a single file included.
C19_CancelCopiesNothing ==
    (mpc = "end" /\ selected_item = None) => dot_gitignore = <<>>

====
